---- MODULE Spec2Model ----
(***************************************************************************)
(* Model of the atlas maps (package atlas): biMap (bimap.go), frozenMap    *)
(* and DefaultMap.  One instance is shared by NumThreads goroutines.  Each *)
(* goroutine runs one call at a time; a call is a sequence of steps, one   *)
(* per lock acquisition and one per table access, so that every            *)
(* interleaving the Go scheduler can produce is a behaviour of the model.  *)
(***************************************************************************)
EXTENDS Integers, FiniteSets, Sequences, TLC

\* ------------------------------------------------------------------ bounds
NumThreads == 2
NumKeys    == 2
NumValues  == 2
MaxCalls   == 4
MaxSeqCalls == 3

\* The zero value of K or V, returned by a map read that misses.  It is a key
\* and a value like any other.
ZeroValue == 0

Threads  == 1..NumThreads
KeySet   == ZeroValue..(NumKeys - 1)
ValueSet == ZeroValue..(NumValues - 1)
\* mu when no goroutine holds it.
Unlocked == 0

\* error values
ErrDuplicatedKey   == "duplicated key"
ErrDuplicatedValue == "duplicated value"
ErrKeyAlreadySet   == "key already set"
GeneratorError     == "getting value from genFunc"
NoError            == "nil"

VARIABLES
    mu,       \* the instance's sync.Mutex: Unlocked, or the goroutine holding it
    mp,       \* the instance's mp table (forward table of a biMap)
    inverse,  \* biMap.inverse (stays empty for a frozenMap)
    op,       \* per goroutine: the method it is running, "None" between calls
    pc,       \* per goroutine: the statement it executes next
    key,      \* per goroutine: the key argument
    value,    \* per goroutine: the value argument; in Delete the local value
    ret,      \* per goroutine: the list of results the call returned
    calls,    \* number of calls started so far
    overlap,  \* whether the callers let calls overlap; fixed at the start
    gen,      \* per goroutine: in DefaultMap.Get, what the generator returned
    kind      \* the type of the instance: biMap, frozenMap or defaultMap

vars == <<mu, mp, inverse, op, pc, key, value, ret, calls, overlap, gen, kind>>

\* ------------------------------------------------------- Go map primitives
EmptyMap == [x \in {} |-> ZeroValue]

\* mutant of the map write: the other entries are lost
MutAssignReplace(m, k, v) == [x \in {k} |-> v]

\* m[k] = v
MapAssign(m, k, v) == [x \in DOMAIN m \cup {k} |-> IF x = k THEN v ELSE m[x]]

\* delete(m, k)
MapDelete(m, k) == [x \in DOMAIN m \ {k} |-> m[x]]

\* v, ok := m[k]
MapLookup(m, k) == IF k \in DOMAIN m THEN <<m[k], TRUE>> ELSE <<ZeroValue, FALSE>>

\* mutant of maps.Clone: the map itself is returned
MutCloneAlias(ref, m) == [obj |-> ref, tbl |-> m]

\* maps.Clone(m), m being the map object ref: a new map object with the
\* entries of m.  A map value is the object it refers to and its entries.
MapsClone(ref, m) == [obj |-> "clone", tbl |-> m]

\* maps.Values(m): a slice in unspecified order, kept as the bag of its elements
MapValues(m) ==
    [v \in {m[k] : k \in DOMAIN m} |-> Cardinality({k \in DOMAIN m : m[k] = v})]

\* ------------------------------------------------------------ initial state
NoRet == <<>>
\* the generator has not been invoked in this call
NoGen == <<>>

\* a new instance: empty tables, the mutex free, no call made
New ==
    /\ mu = Unlocked
    /\ mp = EmptyMap
    /\ inverse = EmptyMap
    /\ op = [t \in Threads |-> "None"]
    /\ pc = [t \in Threads |-> "Idle"]
    /\ key = [t \in Threads |-> ZeroValue]
    /\ value = [t \in Threads |-> ZeroValue]
    /\ ret = [t \in Threads |-> NoRet]
    /\ gen = [t \in Threads |-> NoGen]
    /\ calls = 0

\* the three constructors of the package
NewBiMap      == New /\ kind = "biMap"
NewFrozenMap  == New /\ kind = "frozenMap"
NewDefaultMap == New /\ kind = "defaultMap"

\* the goroutines call at any time
Init        == NewBiMap /\ overlap = TRUE
InitFrozen  == NewFrozenMap /\ overlap = TRUE
InitDefault == NewDefaultMap /\ overlap = TRUE

\* a goroutine calls only when every earlier call has returned
InitSeq        == NewBiMap /\ overlap = FALSE
InitFrozenSeq  == NewFrozenMap /\ overlap = FALSE
InitDefaultSeq == NewDefaultMap /\ overlap = FALSE

\* no call is in progress
Quiescent == \A t \in Threads : pc[t] \in {"Idle", "Done"}

\* how many calls a run makes
CallBound == IF overlap THEN MaxCalls ELSE MaxSeqCalls

\* ------------------------------------------------------------ thread steps
\* m.mu.Lock(): blocks until the mutex is free
Lock(t) == mu = Unlocked /\ mu' = t

\* mutant: the mutex is not released
MutUnlockNone(t) == mu = t /\ mu' = mu

\* the deferred m.mu.Unlock()
Unlock(t) == mu = t /\ mu' = Unlocked

Goto(t, label) == pc' = [pc EXCEPT ![t] = label]

\* return r, the list of the call's results
Return(t, r) == pc' = [pc EXCEPT ![t] = "Done"] /\ ret' = [ret EXCEPT ![t] = r]

\* a goroutine starts a call of method o with arguments k and v
Call(t, o, k, v, label) ==
    /\ overlap \/ Quiescent
    /\ calls < CallBound
    /\ calls' = calls + 1
    /\ op' = [op EXCEPT ![t] = o]
    /\ key' = [key EXCEPT ![t] = k]
    /\ value' = [value EXCEPT ![t] = v]
    /\ Goto(t, label)
    /\ UNCHANGED <<mu, mp, inverse, ret, overlap, gen, kind>>

\* the caller takes the result; the goroutine is free for its next call
Finish(t) ==
    /\ pc[t] = "Done"
    /\ op' = [op EXCEPT ![t] = "None"]
    /\ key' = [key EXCEPT ![t] = ZeroValue]
    /\ value' = [value EXCEPT ![t] = ZeroValue]
    /\ ret' = [ret EXCEPT ![t] = NoRet]
    /\ gen' = [gen EXCEPT ![t] = NoGen]
    /\ Goto(t, "Idle")
    /\ UNCHANGED <<mu, mp, inverse, calls, overlap, kind>>

\* a step that touches neither table
Local(t) == UNCHANGED <<mp, inverse, op, key, value, calls, overlap, gen, kind>>

\* ------------------------------------------------------------------- biMap
\* mutants of the table reads: a lookup in the other table; Has always true,
\* always false
MutHasInInverse(k)       == MapLookup(inverse, k)[2]
MutHasAlways(k)          == TRUE
MutHasNever(k)           == FALSE
MutGetInverseInMp(v)     == MapLookup(mp, v)

\* the table reads of biMap's methods
BiMapHas(k)        == MapLookup(mp, k)[2]
BiMapGet(k)        == MapLookup(mp, k)
BiMapGetInverse(v) == MapLookup(inverse, v)
BiMapHasInverse(v) == MapLookup(inverse, v)[2]
BiMapSize          == Cardinality(DOMAIN mp)
BiMapKeys          == DOMAIN mp
BiMapValues        == MapValues(mp)
BiMapToMap         == MapsClone("mp", mp)
BiMapToMapInverse  == MapsClone("inverse", inverse)

\* mutants of the table writes: key and value swapped; the inverse entry
\* kept; the forward entry kept
MutSetInverseSwapped(k, v) == MapAssign(inverse, k, v)
MutDeleteInverseNone(v)    == inverse
MutDeleteMpNone(k)         == mp

\* the table writes of biMap's methods
BiMapSetMp(k, v)       == MapAssign(mp, k, v)
BiMapSetInverse(k, v)  == MapAssign(inverse, v, k)
BiMapDeleteMp(k)       == MapDelete(mp, k)
BiMapDeleteInverse(v)  == MapDelete(inverse, v)

\* statements that write a table, by table
MpWriters      == {"SetWriteMp", "DeleteMp", "FrozenSetWrite", "FrozenDeleteWrite"}
InverseWriters == {"SetWriteInverse", "DeleteInverse"}

\* An access made without the mutex is a data race when another goroutine is
\* at a write of the same table.  The Go runtime may then abort the process
\* ("fatal error: concurrent map iteration and map write"), which ends every
\* goroutine, or let the read go through.
Races(t, writers) == \E u \in Threads \ {t} : pc[u] \in writers
Outcomes(t, writers) == IF Races(t, writers) THEN {"read", "fatal"} ELSE {"read"}

\* an unlocked read of a table: returns r, or the runtime aborts
UnlockedRead(t, writers, r) ==
    /\ \E o \in Outcomes(t, writers) :
          IF o = "fatal"
          THEN pc' = [u \in Threads |-> "Fatal"] /\ UNCHANGED ret
          ELSE Return(t, r)
    /\ UNCHANGED mu
    /\ Local(t)

\* m.mu.Lock(), then on to the statement at label
LockStep(t, label) ==
    /\ Lock(t)
    /\ Goto(t, label)
    /\ UNCHANGED ret
    /\ Local(t)

\* ---- Set(key, value)
SetCall(t) ==
    pc[t] = "Idle" /\ kind = "biMap" /\ \E k \in KeySet, v \in ValueSet : Call(t, "Set", k, v, "SetHasLock")

\* if m.Has(key) { return ErrDuplicatedKey }
SetHasLock(t) == pc[t] = "SetHasLock" /\ LockStep(t, "SetHasRead")

SetHasRead(t) ==
    /\ pc[t] = "SetHasRead"
    /\ Unlock(t)
    /\ IF BiMapHas(key[t])
       THEN Return(t, <<ErrDuplicatedKey>>)
       ELSE Goto(t, "SetGetInverseLock") /\ UNCHANGED ret
    /\ Local(t)

\* if _, ok := m.GetInverse(value); ok { return ErrDuplicatedValue }
SetGetInverseLock(t) == pc[t] = "SetGetInverseLock" /\ LockStep(t, "SetGetInverseRead")

SetGetInverseRead(t) ==
    /\ pc[t] = "SetGetInverseRead"
    /\ Unlock(t)
    /\ IF BiMapGetInverse(value[t])[2]
       THEN Return(t, <<ErrDuplicatedValue>>)
       ELSE Goto(t, "SetLock") /\ UNCHANGED ret
    /\ Local(t)

\* m.mu.Lock(); defer m.mu.Unlock()
SetLock(t) == pc[t] = "SetLock" /\ LockStep(t, "SetWriteMp")

\* m.mp[key] = value
SetWriteMp(t) ==
    /\ pc[t] = "SetWriteMp"
    /\ mu = t
    /\ mp' = BiMapSetMp(key[t], value[t])
    /\ Goto(t, "SetWriteInverse")
    /\ UNCHANGED <<mu, inverse, op, key, value, ret, calls, overlap, gen, kind>>

\* m.inverse[value] = key; return nil
SetWriteInverse(t) ==
    /\ pc[t] = "SetWriteInverse"
    /\ inverse' = BiMapSetInverse(key[t], value[t])
    /\ Unlock(t)
    /\ Return(t, <<NoError>>)
    /\ UNCHANGED <<mp, op, key, value, calls, overlap, gen, kind>>

\* ---- Delete(key)
DeleteCall(t) ==
    pc[t] = "Idle" /\ kind = "biMap" /\ \E k \in KeySet : Call(t, "Delete", k, ZeroValue, "DeleteHasLock")

\* if !m.Has(key) { return }
DeleteHasLock(t) == pc[t] = "DeleteHasLock" /\ LockStep(t, "DeleteHasRead")

DeleteHasRead(t) ==
    /\ pc[t] = "DeleteHasRead"
    /\ Unlock(t)
    /\ IF ~BiMapHas(key[t])
       THEN Return(t, NoRet)
       ELSE Goto(t, "DeleteGetLock") /\ UNCHANGED ret
    /\ Local(t)

\* value, _ := m.Get(key)
DeleteGetLock(t) == pc[t] = "DeleteGetLock" /\ LockStep(t, "DeleteGetRead")

DeleteGetRead(t) ==
    /\ pc[t] = "DeleteGetRead"
    /\ Unlock(t)
    /\ value' = [value EXCEPT ![t] = BiMapGet(key[t])[1]]
    /\ Goto(t, "DeleteLock")
    /\ UNCHANGED <<mp, inverse, op, key, ret, calls, overlap, gen, kind>>

\* m.mu.Lock(); defer m.mu.Unlock()
DeleteLock(t) == pc[t] = "DeleteLock" /\ LockStep(t, "DeleteMp")

\* delete(m.mp, key)
DeleteMp(t) ==
    /\ pc[t] = "DeleteMp"
    /\ mu = t
    /\ mp' = BiMapDeleteMp(key[t])
    /\ Goto(t, "DeleteInverse")
    /\ UNCHANGED <<mu, inverse, op, key, value, ret, calls, overlap, gen, kind>>

\* delete(m.inverse, value)
DeleteInverse(t) ==
    /\ pc[t] = "DeleteInverse"
    /\ inverse' = BiMapDeleteInverse(value[t])
    /\ Unlock(t)
    /\ Return(t, NoRet)
    /\ UNCHANGED <<mp, op, key, value, calls, overlap, gen, kind>>

\* ---- Get, GetInverse, Has, HasInverse: lock, read, unlock
LockedRead(t, r) ==
    /\ Unlock(t)
    /\ Return(t, r)
    /\ Local(t)

GetCall(t) ==
    pc[t] = "Idle" /\ kind = "biMap" /\ \E k \in KeySet : Call(t, "Get", k, ZeroValue, "GetLock")
GetLock(t) == pc[t] = "GetLock" /\ LockStep(t, "GetRead")
GetRead(t) == pc[t] = "GetRead" /\ LockedRead(t, BiMapGet(key[t]))

GetInverseCall(t) ==
    pc[t] = "Idle" /\ kind = "biMap" /\ \E v \in ValueSet : Call(t, "GetInverse", ZeroValue, v, "GetInverseLock")
GetInverseLock(t) == pc[t] = "GetInverseLock" /\ LockStep(t, "GetInverseRead")
GetInverseRead(t) ==
    pc[t] = "GetInverseRead" /\ LockedRead(t, BiMapGetInverse(value[t]))

HasCall(t) ==
    pc[t] = "Idle" /\ kind = "biMap" /\ \E k \in KeySet : Call(t, "Has", k, ZeroValue, "HasLock")
HasLock(t) == pc[t] = "HasLock" /\ LockStep(t, "HasRead")
HasRead(t) == pc[t] = "HasRead" /\ LockedRead(t, <<BiMapHas(key[t])>>)

HasInverseCall(t) ==
    pc[t] = "Idle" /\ kind = "biMap" /\ \E v \in ValueSet : Call(t, "HasInverse", ZeroValue, v, "HasInverseLock")
HasInverseLock(t) == pc[t] = "HasInverseLock" /\ LockStep(t, "HasInverseRead")
HasInverseRead(t) ==
    pc[t] = "HasInverseRead" /\ LockedRead(t, <<BiMapHasInverse(value[t])>>)

\* ---- Keys, Values, Size, ToMap, ToMapInverse: no lock is taken
KeysCall(t) == pc[t] = "Idle" /\ kind = "biMap" /\ Call(t, "Keys", ZeroValue, ZeroValue, "KeysRead")
KeysRead(t) == pc[t] = "KeysRead" /\ UnlockedRead(t, MpWriters, <<BiMapKeys>>)

ValuesCall(t) == pc[t] = "Idle" /\ kind = "biMap" /\ Call(t, "Values", ZeroValue, ZeroValue, "ValuesRead")
ValuesRead(t) == pc[t] = "ValuesRead" /\ UnlockedRead(t, MpWriters, <<BiMapValues>>)

\* len(m.mp) reads one word: it never aborts
SizeCall(t) == pc[t] = "Idle" /\ kind = "biMap" /\ Call(t, "Size", ZeroValue, ZeroValue, "SizeRead")
SizeRead(t) ==
    /\ pc[t] = "SizeRead"
    /\ Return(t, <<BiMapSize>>)
    /\ UNCHANGED mu
    /\ Local(t)

ToMapCall(t) == pc[t] = "Idle" /\ kind = "biMap" /\ Call(t, "ToMap", ZeroValue, ZeroValue, "ToMapRead")
ToMapRead(t) == pc[t] = "ToMapRead" /\ UnlockedRead(t, MpWriters, <<BiMapToMap>>)

ToMapInverseCall(t) ==
    pc[t] = "Idle" /\ kind = "biMap" /\ Call(t, "ToMapInverse", ZeroValue, ZeroValue, "ToMapInverseRead")
ToMapInverseRead(t) ==
    pc[t] = "ToMapInverseRead" /\ UnlockedRead(t, InverseWriters, <<BiMapToMapInverse>>)

\* the runtime has aborted the process: nothing runs any more
Fatal == \E t \in Threads : pc[t] = "Fatal"

\* the methods that take the mutex
BiMapLockedStep(t) ==
    \/ SetCall(t) \/ SetHasLock(t) \/ SetHasRead(t)
    \/ SetGetInverseLock(t) \/ SetGetInverseRead(t)
    \/ SetLock(t) \/ SetWriteMp(t) \/ SetWriteInverse(t)
    \/ DeleteCall(t) \/ DeleteHasLock(t) \/ DeleteHasRead(t)
    \/ DeleteGetLock(t) \/ DeleteGetRead(t)
    \/ DeleteLock(t) \/ DeleteMp(t) \/ DeleteInverse(t)
    \/ GetCall(t) \/ GetLock(t) \/ GetRead(t)
    \/ GetInverseCall(t) \/ GetInverseLock(t) \/ GetInverseRead(t)
    \/ HasCall(t) \/ HasLock(t) \/ HasRead(t)
    \/ HasInverseCall(t) \/ HasInverseLock(t) \/ HasInverseRead(t)
    \/ Finish(t)

\* the methods that do not
BiMapUnlockedStep(t) ==
    \/ KeysCall(t) \/ KeysRead(t)
    \/ ValuesCall(t) \/ ValuesRead(t)
    \/ SizeCall(t) \/ SizeRead(t)
    \/ ToMapCall(t) \/ ToMapRead(t)
    \/ ToMapInverseCall(t) \/ ToMapInverseRead(t)

\* --------------------------------------------------------------- frozenMap
\* mutants: Has tests the value read instead of ok; Delete removes nothing
MutFrozenHasNonZero(k) == MapLookup(mp, k)[1] # ZeroValue
MutFrozenDeleteNone(k) == mp

\* the table reads and writes of frozenMap's methods
FrozenMapHas(k)      == MapLookup(mp, k)[2]
FrozenMapGet(k)      == MapLookup(mp, k)
FrozenMapSize        == Cardinality(DOMAIN mp)
FrozenMapKeys        == DOMAIN mp
FrozenMapValues      == MapValues(mp)
FrozenMapToMap       == MapsClone("mp", mp)
FrozenMapSetMp(k, v) == MapAssign(mp, k, v)
FrozenMapDeleteMp(k) == MapDelete(mp, k)

\* ---- Set(key, value)
FrozenSetCall(t) ==
    pc[t] = "Idle" /\ kind = "frozenMap" /\ \E k \in KeySet, v \in ValueSet : Call(t, "Set", k, v, "FrozenSetHasLock")

\* if m.Has(key) { return ErrKeyAlreadySet }
FrozenSetHasLock(t) == pc[t] = "FrozenSetHasLock" /\ LockStep(t, "FrozenSetHasRead")

FrozenSetHasRead(t) ==
    /\ pc[t] = "FrozenSetHasRead"
    /\ Unlock(t)
    /\ IF FrozenMapHas(key[t])
       THEN Return(t, <<ErrKeyAlreadySet>>)
       ELSE Goto(t, "FrozenSetLock") /\ UNCHANGED ret
    /\ Local(t)

\* m.mu.Lock(); defer m.mu.Unlock()
FrozenSetLock(t) == pc[t] = "FrozenSetLock" /\ LockStep(t, "FrozenSetWrite")

\* m.mp[key] = value; return nil
FrozenSetWrite(t) ==
    /\ pc[t] = "FrozenSetWrite"
    /\ mp' = FrozenMapSetMp(key[t], value[t])
    /\ Unlock(t)
    /\ Return(t, <<NoError>>)
    /\ UNCHANGED <<inverse, op, key, value, calls, overlap, gen, kind>>

\* ---- Delete(key)
FrozenDeleteCall(t) ==
    pc[t] = "Idle" /\ kind = "frozenMap" /\ \E k \in KeySet : Call(t, "Delete", k, ZeroValue, "FrozenDeleteHasLock")

\* if !m.Has(key) { return }
FrozenDeleteHasLock(t) ==
    pc[t] = "FrozenDeleteHasLock" /\ LockStep(t, "FrozenDeleteHasRead")

FrozenDeleteHasRead(t) ==
    /\ pc[t] = "FrozenDeleteHasRead"
    /\ Unlock(t)
    /\ IF ~FrozenMapHas(key[t])
       THEN Return(t, NoRet)
       ELSE Goto(t, "FrozenDeleteLock") /\ UNCHANGED ret
    /\ Local(t)

\* m.mu.Lock(); defer m.mu.Unlock()
FrozenDeleteLock(t) == pc[t] = "FrozenDeleteLock" /\ LockStep(t, "FrozenDeleteWrite")

\* delete(m.mp, key)
FrozenDeleteWrite(t) ==
    /\ pc[t] = "FrozenDeleteWrite"
    /\ mp' = FrozenMapDeleteMp(key[t])
    /\ Unlock(t)
    /\ Return(t, NoRet)
    /\ UNCHANGED <<inverse, op, key, value, calls, overlap, gen, kind>>

\* ---- Has, Get: lock, read, unlock
FrozenHasCall(t) ==
    pc[t] = "Idle" /\ kind = "frozenMap" /\ \E k \in KeySet : Call(t, "Has", k, ZeroValue, "FrozenHasLock")
FrozenHasLock(t) == pc[t] = "FrozenHasLock" /\ LockStep(t, "FrozenHasRead")
FrozenHasRead(t) == pc[t] = "FrozenHasRead" /\ LockedRead(t, <<FrozenMapHas(key[t])>>)

FrozenGetCall(t) ==
    pc[t] = "Idle" /\ kind = "frozenMap" /\ \E k \in KeySet : Call(t, "Get", k, ZeroValue, "FrozenGetLock")
FrozenGetLock(t) == pc[t] = "FrozenGetLock" /\ LockStep(t, "FrozenGetRead")
FrozenGetRead(t) == pc[t] = "FrozenGetRead" /\ LockedRead(t, FrozenMapGet(key[t]))

\* ---- Keys, Values, Size, ToMap: no lock is taken
FrozenKeysCall(t) ==
    pc[t] = "Idle" /\ kind = "frozenMap" /\ Call(t, "Keys", ZeroValue, ZeroValue, "FrozenKeysRead")
FrozenKeysRead(t) ==
    pc[t] = "FrozenKeysRead" /\ UnlockedRead(t, MpWriters, <<FrozenMapKeys>>)

FrozenValuesCall(t) ==
    pc[t] = "Idle" /\ kind = "frozenMap" /\ Call(t, "Values", ZeroValue, ZeroValue, "FrozenValuesRead")
FrozenValuesRead(t) ==
    pc[t] = "FrozenValuesRead" /\ UnlockedRead(t, MpWriters, <<FrozenMapValues>>)

FrozenSizeCall(t) ==
    pc[t] = "Idle" /\ kind = "frozenMap" /\ Call(t, "Size", ZeroValue, ZeroValue, "FrozenSizeRead")
FrozenSizeRead(t) ==
    /\ pc[t] = "FrozenSizeRead"
    /\ Return(t, <<FrozenMapSize>>)
    /\ UNCHANGED mu
    /\ Local(t)

FrozenToMapCall(t) ==
    pc[t] = "Idle" /\ kind = "frozenMap" /\ Call(t, "ToMap", ZeroValue, ZeroValue, "FrozenToMapRead")
FrozenToMapRead(t) ==
    pc[t] = "FrozenToMapRead" /\ UnlockedRead(t, MpWriters, <<FrozenMapToMap>>)

FrozenMapLockedStep(t) ==
    \/ FrozenSetCall(t) \/ FrozenSetHasLock(t) \/ FrozenSetHasRead(t)
    \/ FrozenSetLock(t) \/ FrozenSetWrite(t)
    \/ FrozenDeleteCall(t) \/ FrozenDeleteHasLock(t) \/ FrozenDeleteHasRead(t)
    \/ FrozenDeleteLock(t) \/ FrozenDeleteWrite(t)
    \/ FrozenHasCall(t) \/ FrozenHasLock(t) \/ FrozenHasRead(t)
    \/ FrozenGetCall(t) \/ FrozenGetLock(t) \/ FrozenGetRead(t)
    \/ Finish(t)

FrozenMapUnlockedStep(t) ==
    \/ FrozenKeysCall(t) \/ FrozenKeysRead(t)
    \/ FrozenValuesCall(t) \/ FrozenValuesRead(t)
    \/ FrozenSizeCall(t) \/ FrozenSizeRead(t)
    \/ FrozenToMapCall(t) \/ FrozenToMapRead(t)

\* -------------------------------------------------------------- DefaultMap
\* mutants: the existence check always answers true, or always false; an
\* insertion keeps a value already stored
MutDefaultHasAlways(k)      == TRUE
MutDefaultHasNever(k)       == FALSE
MutDefaultSetKeepFirst(k, v) == IF k \in DOMAIN mp THEN mp ELSE MapAssign(mp, k, v)

\* the table reads and writes of DefaultMap's methods
DefaultMapHas(k)      == MapLookup(mp, k)[2]
DefaultMapGet(k)      == MapLookup(mp, k)
DefaultMapSize        == Cardinality(DOMAIN mp)
DefaultMapToMap       == MapsClone("mp", mp)
DefaultMapSetMp(k, v) == MapAssign(mp, k, v)
DefaultMapDeleteMp(k) == MapDelete(mp, k)

\* what one invocation of the generator can return: a value, or an error
GenFuncResults ==
    {<<v, NoError>> : v \in ValueSet} \cup {<<ZeroValue, "unexpected">>}

\* mutant: the generator's error is ignored
MutGenIgnoreError(r) == "DefaultGetSetLock"

\* where Get goes with the generator's result r: it returns the wrapped error,
\* or goes on to store the value
DefaultGetAfterGen(r) == IF r[2] # NoError THEN "Done" ELSE "DefaultGetSetLock"

\* ---- Set(key, value): unconditional insert
DefaultSetCall(t) ==
    pc[t] = "Idle" /\ kind = "defaultMap" /\ \E k \in KeySet, v \in ValueSet : Call(t, "Set", k, v, "DefaultSetLock")

DefaultSetLock(t) == pc[t] = "DefaultSetLock" /\ LockStep(t, "DefaultSetWrite")

DefaultSetWrite(t) ==
    /\ pc[t] = "DefaultSetWrite"
    /\ mp' = DefaultMapSetMp(key[t], value[t])
    /\ Unlock(t)
    /\ Return(t, NoRet)
    /\ UNCHANGED <<inverse, op, key, value, calls, overlap, gen, kind>>

\* ---- Get(key)
DefaultGetCall(t) ==
    pc[t] = "Idle" /\ kind = "defaultMap" /\ \E k \in KeySet : Call(t, "Get", k, ZeroValue, "DefaultGetLock")

\* the existence check, in its own critical section
DefaultGetLock(t) == pc[t] = "DefaultGetLock" /\ LockStep(t, "DefaultGetRead")

\* present: return the value; absent: on to the generator
DefaultGetRead(t) ==
    /\ pc[t] = "DefaultGetRead"
    /\ Unlock(t)
    /\ IF DefaultMapHas(key[t])
       THEN Return(t, <<DefaultMapGet(key[t])[1], NoError>>)
       ELSE Goto(t, "DefaultGetGen") /\ UNCHANGED ret
    /\ Local(t)

\* value, err := m.genFunc(): the generator is invoked with the mutex free
DefaultGetGen(t) ==
    /\ pc[t] = "DefaultGetGen"
    /\ \E r \in GenFuncResults : gen' = [gen EXCEPT ![t] = r]
    /\ Goto(t, "DefaultGetGenErr")
    /\ UNCHANGED <<mu, mp, inverse, op, key, value, ret, calls, overlap, kind>>

\* the generator failed: return its error, wrapped
DefaultGetGenErr(t) ==
    /\ pc[t] = "DefaultGetGenErr"
    /\ IF DefaultGetAfterGen(gen[t]) = "Done"
       THEN Return(t, <<ZeroValue, GeneratorError>>)
       ELSE Goto(t, DefaultGetAfterGen(gen[t])) /\ UNCHANGED ret
    /\ UNCHANGED mu
    /\ Local(t)

\* the insertion takes the mutex again
DefaultGetSetLock(t) == pc[t] = "DefaultGetSetLock" /\ LockStep(t, "DefaultGetSetWrite")

\* store the generated value and return it
DefaultGetSetWrite(t) ==
    /\ pc[t] = "DefaultGetSetWrite"
    /\ mp' = DefaultMapSetMp(key[t], gen[t][1])
    /\ Unlock(t)
    /\ Return(t, <<gen[t][1], NoError>>)
    /\ UNCHANGED <<inverse, op, key, value, calls, overlap, gen, kind>>

\* ---- Has(key): lock, read, unlock
DefaultHasCall(t) ==
    pc[t] = "Idle" /\ kind = "defaultMap" /\ \E k \in KeySet : Call(t, "Has", k, ZeroValue, "DefaultHasLock")
DefaultHasLock(t) == pc[t] = "DefaultHasLock" /\ LockStep(t, "DefaultHasRead")
DefaultHasRead(t) == pc[t] = "DefaultHasRead" /\ LockedRead(t, <<DefaultMapHas(key[t])>>)

\* ---- Delete(key): no-op if absent, otherwise removes
DefaultDeleteCall(t) ==
    pc[t] = "Idle" /\ kind = "defaultMap" /\ \E k \in KeySet : Call(t, "Delete", k, ZeroValue, "DefaultDeleteHasLock")

DefaultDeleteHasLock(t) ==
    pc[t] = "DefaultDeleteHasLock" /\ LockStep(t, "DefaultDeleteHasRead")

DefaultDeleteHasRead(t) ==
    /\ pc[t] = "DefaultDeleteHasRead"
    /\ Unlock(t)
    /\ IF ~DefaultMapHas(key[t])
       THEN Return(t, NoRet)
       ELSE Goto(t, "DefaultDeleteLock") /\ UNCHANGED ret
    /\ Local(t)

DefaultDeleteLock(t) == pc[t] = "DefaultDeleteLock" /\ LockStep(t, "DefaultDeleteWrite")

DefaultDeleteWrite(t) ==
    /\ pc[t] = "DefaultDeleteWrite"
    /\ mp' = DefaultMapDeleteMp(key[t])
    /\ Unlock(t)
    /\ Return(t, NoRet)
    /\ UNCHANGED <<inverse, op, key, value, calls, overlap, gen, kind>>

\* ---- ToMap(): a snapshot taken under the lock
DefaultToMapCall(t) ==
    pc[t] = "Idle" /\ kind = "defaultMap" /\ Call(t, "ToMap", ZeroValue, ZeroValue, "DefaultToMapLock")
DefaultToMapLock(t) == pc[t] = "DefaultToMapLock" /\ LockStep(t, "DefaultToMapRead")
DefaultToMapRead(t) == pc[t] = "DefaultToMapRead" /\ LockedRead(t, <<DefaultMapToMap>>)

DefaultMapStep(t) ==
    \/ DefaultSetCall(t) \/ DefaultSetLock(t) \/ DefaultSetWrite(t)
    \/ DefaultGetCall(t) \/ DefaultGetLock(t) \/ DefaultGetRead(t)
    \/ DefaultGetGen(t) \/ DefaultGetGenErr(t)
    \/ DefaultGetSetLock(t) \/ DefaultGetSetWrite(t)
    \/ DefaultHasCall(t) \/ DefaultHasLock(t) \/ DefaultHasRead(t)
    \/ DefaultDeleteCall(t) \/ DefaultDeleteHasLock(t) \/ DefaultDeleteHasRead(t)
    \/ DefaultDeleteLock(t) \/ DefaultDeleteWrite(t)
    \/ Finish(t)

\* ------------------------------------------- the caller and a returned map
\* a write through the map value r stores entries: into the object r refers to
WriteThrough(r, entries) ==
    /\ mp' = IF r.obj = "mp" THEN entries ELSE mp
    /\ inverse' = IF r.obj = "inverse" THEN entries ELSE inverse

\* the caller changes the map gotMap that its ToMap or ToMapInverse returned
CallerWrite(t, entries) ==
    /\ overlap \/ Quiescent
    /\ calls < CallBound
    /\ calls' = calls + 1
    /\ ret' = [ret EXCEPT ![t] = <<[obj |-> ret[t][1].obj, tbl |-> entries]>>]
    /\ WriteThrough(ret[t][1], entries)
    /\ UNCHANGED <<mu, op, pc, key, value, overlap, gen, kind>>

\* gotMap[k] = v
GotMapAssign(t) ==
    /\ pc[t] = "Done"
    /\ op[t] \in {"ToMap", "ToMapInverse"}
    /\ \E k \in KeySet, v \in ValueSet :
          IF op[t] = "ToMap"
          THEN CallerWrite(t, MapAssign(ret[t][1].tbl, k, v))
          ELSE CallerWrite(t, MapAssign(ret[t][1].tbl, v, k))

\* delete(gotMap, k)
GotMapDelete(t) ==
    /\ pc[t] = "Done"
    /\ op[t] \in {"ToMap", "ToMapInverse"}
    /\ \E k \in DOMAIN ret[t][1].tbl : CallerWrite(t, MapDelete(ret[t][1].tbl, k))

\* ---------------------------------------------------------- specifications
\* a biMap: concurrent calls of Set, Delete, Get, GetInverse, Has, HasInverse
Next == \E t \in Threads : BiMapLockedStep(t)

Spec == Init /\ [][Next]_vars

\* a biMap: concurrent calls of every method
NextAll == \E t \in Threads : BiMapLockedStep(t) \/ BiMapUnlockedStep(t)

SpecAll == Init /\ [][NextAll]_vars

\* a biMap whose calls never overlap
SpecSeq == InitSeq /\ [][Next]_vars

\* a frozenMap: concurrent calls of Set, Delete, Has, Get
NextFrozen == \E t \in Threads : FrozenMapLockedStep(t)

SpecFrozen == InitFrozen /\ [][NextFrozen]_vars

\* a frozenMap whose calls never overlap
SpecFrozenSeq == InitFrozenSeq /\ [][NextFrozen]_vars

\* a frozenMap: concurrent calls of every method
NextFrozenAll == \E t \in Threads : FrozenMapLockedStep(t) \/ FrozenMapUnlockedStep(t)

SpecFrozenAll == InitFrozen /\ [][NextFrozenAll]_vars

\* a DefaultMap: concurrent calls of Set, Get, Has, Delete
NextDefault == \E t \in Threads : DefaultMapStep(t)

SpecDefault == InitDefault /\ [][NextDefault]_vars

\* a DefaultMap whose calls never overlap
SpecDefaultSeq == InitDefaultSeq /\ [][NextDefault]_vars

\* a DefaultMap: concurrent calls of Get
DefaultGetStep(t) ==
    \/ DefaultGetCall(t) \/ DefaultGetLock(t) \/ DefaultGetRead(t)
    \/ DefaultGetGen(t) \/ DefaultGetGenErr(t)
    \/ DefaultGetSetLock(t) \/ DefaultGetSetWrite(t)
    \/ Finish(t)

NextDefaultGet == \E t \in Threads : DefaultGetStep(t)

SpecDefaultGet == InitDefault /\ [][NextDefaultGet]_vars

\* an instance of any of the three types, its calls never overlapping: Set,
\* Delete, ToMap and ToMapInverse, and the caller's writes to the maps
\* returned
InitAnySeq == New /\ kind \in {"biMap", "frozenMap", "defaultMap"} /\ overlap = FALSE

NextAny ==
    \E t \in Threads :
        \/ SetCall(t) \/ SetHasLock(t) \/ SetHasRead(t)
        \/ SetGetInverseLock(t) \/ SetGetInverseRead(t)
        \/ SetLock(t) \/ SetWriteMp(t) \/ SetWriteInverse(t)
        \/ DeleteCall(t) \/ DeleteHasLock(t) \/ DeleteHasRead(t)
        \/ DeleteGetLock(t) \/ DeleteGetRead(t)
        \/ DeleteLock(t) \/ DeleteMp(t) \/ DeleteInverse(t)
        \/ ToMapCall(t) \/ ToMapRead(t)
        \/ ToMapInverseCall(t) \/ ToMapInverseRead(t)
        \/ FrozenSetCall(t) \/ FrozenSetHasLock(t) \/ FrozenSetHasRead(t)
        \/ FrozenSetLock(t) \/ FrozenSetWrite(t)
        \/ FrozenDeleteCall(t) \/ FrozenDeleteHasLock(t) \/ FrozenDeleteHasRead(t)
        \/ FrozenDeleteLock(t) \/ FrozenDeleteWrite(t)
        \/ FrozenToMapCall(t) \/ FrozenToMapRead(t)
        \/ DefaultSetCall(t) \/ DefaultSetLock(t) \/ DefaultSetWrite(t)
        \/ DefaultDeleteCall(t) \/ DefaultDeleteHasLock(t) \/ DefaultDeleteHasRead(t)
        \/ DefaultDeleteLock(t) \/ DefaultDeleteWrite(t)
        \/ DefaultToMapCall(t) \/ DefaultToMapLock(t) \/ DefaultToMapRead(t)
        \/ GotMapAssign(t) \/ GotMapDelete(t)
        \/ Finish(t)

SpecAnySeq == InitAnySeq /\ [][NextAny]_vars

\* a biMap or a frozenMap called by goroutines that the scheduler runs fairly
InitLive == New /\ kind \in {"biMap", "frozenMap"} /\ overlap = TRUE

NextLive == \E t \in Threads : BiMapLockedStep(t) \/ FrozenMapLockedStep(t)

\* a step of the call goroutine t is in
Runs(t) ==
    /\ pc[t] \notin {"Idle", "Done"}
    /\ BiMapLockedStep(t) \/ FrozenMapLockedStep(t)

\* A goroutine that can run does run, and one that waits for the mutex gets
\* it if it is released again and again: the Go scheduler preempts, and a
\* sync.Mutex in starvation mode is handed to the goroutine that waits.
\* (every step of a call moves the goroutine's pc.)
Fairness == \A t \in Threads : SF_pc(Runs(t))

SpecLive == InitLive /\ [][NextLive]_vars /\ Fairness

\* a biMap or a frozenMap, and goroutines that each make one call of Set, as
\* the goroutines of the tests do
NextSetOnce ==
    \E t \in Threads :
        \/ SetCall(t) \/ SetHasLock(t) \/ SetHasRead(t)
        \/ SetGetInverseLock(t) \/ SetGetInverseRead(t)
        \/ SetLock(t) \/ SetWriteMp(t) \/ SetWriteInverse(t)
        \/ FrozenSetCall(t) \/ FrozenSetHasLock(t) \/ FrozenSetHasRead(t)
        \/ FrozenSetLock(t) \/ FrozenSetWrite(t)

SpecSetOnce == InitLive /\ [][NextSetOnce]_vars

\* ------------------------------------------------------------------ claims
\* f and g are exact inverses: f[k] = v if and only if g[v] = k
ExactInverses(f, g) ==
    /\ \A k \in DOMAIN f : f[k] \in DOMAIN g /\ g[f[k]] = k
    /\ \A v \in DOMAIN g : g[v] \in DOMAIN f /\ f[g[v]] = v

\* C1: whenever the mutex of a biMap is free, in every interleaving of
\* concurrent Set and Delete calls, the forward table and the inverse table
\* are exact inverses of each other, so ToMap() and ToMapInverse() taken in
\* that state are exact inverses.
BijectionInvariant ==
    mu = Unlocked => ExactInverses(BiMapToMap.tbl, BiMapToMapInverse.tbl)

\* C2: biMap.Set makes its two duplicate checks and its insertion atomically:
\* a Set(k, v) that is about to insert (it holds the mutex and returns nil)
\* inserts at an instant when k is absent from the forward table and v is
\* absent from the inverse table.
SetInsertsWhenAbsent ==
    \A t \in Threads :
        pc[t] = "SetWriteMp" =>
            /\ key[t] \notin DOMAIN mp
            /\ value[t] \notin DOMAIN inverse

\* C3: frozenMap is write-once: once key k is present with value v, the value
\* stored under k stays v until a Delete(k) removes it; no step changes the
\* value of a key that is present and stays present.
FrozenWriteOnce ==
    [][\A k \in DOMAIN mp : k \in DOMAIN mp' => mp'[k] = mp[k]]_vars

\* statements that read a table, by table
MpReaders ==
    {"SetHasRead", "DeleteHasRead", "DeleteGetRead", "GetRead", "HasRead",
     "KeysRead", "ValuesRead", "SizeRead", "ToMapRead"}
InverseReaders ==
    {"SetGetInverseRead", "GetInverseRead", "HasInverseRead", "ToMapInverseRead"}

\* C4: lock discipline: every table access is made with the mutex held, so
\* there is no reachable state in which one goroutine is at a read of a table
\* while another goroutine is at a write of that table inside Set or Delete.
NoReadDuringWrite ==
    \A t, u \in Threads :
        t # u =>
            /\ ~(pc[t] \in MpReaders /\ pc[u] \in MpWriters)
            /\ ~(pc[t] \in InverseReaders /\ pc[u] \in InverseWriters)

\* goroutine t executes the statement at label
Steps(t, label) == pc[t] = label /\ pc'[t] # label

\* goroutine t returns from its call
Returns(t) == pc[t] # "Done" /\ pc'[t] = "Done"

TablesUnchanged == mp' = mp /\ inverse' = inverse

\* C5: after biMap.Set(k, v) returns nil, and before any other mutation,
\* Get(k) returns (v, true), GetInverse(v) returns (k, true), Has(k) and
\* HasInverse(v) are true.  A key or value never set is absent (the tables
\* start empty and only Set's insertion of k and v adds them), and Get and
\* GetInverse of an absent key or value return present = false; of a present
\* one, the stored partner and true.
SetThenGet ==
    /\ mp = EmptyMap /\ inverse = EmptyMap
    /\ [][/\ \A t \in Threads :
               /\ (op[t] = "Set" /\ Returns(t) /\ ret'[t] = <<NoError>>) =>
                     /\ BiMapGet(key[t])' = <<value[t], TRUE>>
                     /\ BiMapGetInverse(value[t])' = <<key[t], TRUE>>
                     /\ BiMapHas(key[t])'
                     /\ BiMapHasInverse(value[t])'
               /\ Steps(t, "GetRead") =>
                     /\ Returns(t)
                     /\ TablesUnchanged
                     /\ ret'[t] = IF key[t] \in DOMAIN mp
                                  THEN <<mp[key[t]], TRUE>>
                                  ELSE <<ZeroValue, FALSE>>
               /\ Steps(t, "GetInverseRead") =>
                     /\ Returns(t)
                     /\ TablesUnchanged
                     /\ ret'[t] = IF value[t] \in DOMAIN inverse
                                  THEN <<inverse[value[t]], TRUE>>
                                  ELSE <<ZeroValue, FALSE>>
               /\ Steps(t, "HasRead") =>
                     Returns(t) /\ TablesUnchanged /\ ret'[t] = <<key[t] \in DOMAIN mp>>
               /\ Steps(t, "HasInverseRead") =>
                     Returns(t) /\ TablesUnchanged /\ ret'[t] = <<value[t] \in DOMAIN inverse>>
          /\ \A k \in KeySet :
               (k \notin DOMAIN mp /\ k \in DOMAIN mp') =>
                   \E t \in Threads : op[t] = "Set" /\ key[t] = k /\ Steps(t, "SetWriteMp")
          /\ \A v \in ValueSet :
               (v \notin DOMAIN inverse /\ v \in DOMAIN inverse') =>
                   \E t \in Threads :
                       op[t] = "Set" /\ value[t] = v /\ Steps(t, "SetWriteInverse")
       ]_vars

\* a call of method o by goroutine t has returned r
Returned(t, o, r) == pc[t] = "Done" /\ op[t] = o /\ ret[t] = r

\* C5 witness: Set(k, v) has returned nil and then Get(k) has returned
\* (v, true); the pair is in both tables.
SetThenGetWitness ==
    \E t, u \in Threads :
        /\ Returned(t, "Set", <<NoError>>)
        /\ Returned(u, "Get", <<value[t], TRUE>>)
        /\ key[u] = key[t]
        /\ BiMapGetInverse(value[t]) = <<key[t], TRUE>>

\* C6: for all k and v1 # v2 (and for v1 = v2 too): a Set(k, v2) called when k
\* is present with v1 returns ErrDuplicatedKey and leaves both tables
\* unchanged: Get(k) still returns (v1, true), GetInverse(v1) still returns
\* (k, true), and v2 is not added to the inverse table.
DuplicatedKeyRejected ==
    [][\A t \in Threads :
          (op[t] = "Set" /\ key[t] \in DOMAIN mp) =>
              /\ Steps(t, "SetHasLock") => pc'[t] = "SetHasRead" /\ TablesUnchanged
              /\ Steps(t, "SetHasRead") =>
                    /\ Returns(t)
                    /\ ret'[t] = <<ErrDuplicatedKey>>
                    /\ TablesUnchanged
                    /\ BiMapGet(key[t])' = <<mp[key[t]], TRUE>>
                    /\ (mp[key[t]] \in DOMAIN inverse =>
                          BiMapGetInverse(mp[key[t]])' = <<inverse[mp[key[t]]], TRUE>>)
                    /\ (value[t] \notin DOMAIN inverse => ~BiMapHasInverse(value[t])')
      ]_vars

\* C6 witness: Set(k, v1) has returned nil and then Set(k, v2), v2 # v1, has
\* returned ErrDuplicatedKey; k is still paired with v1 and v2 is absent.
DuplicatedKeyWitness ==
    \E t, u \in Threads :
        /\ Returned(t, "Set", <<NoError>>)
        /\ Returned(u, "Set", <<ErrDuplicatedKey>>)
        /\ key[u] = key[t]
        /\ value[u] # value[t]
        /\ BiMapGet(key[t]) = <<value[t], TRUE>>
        /\ BiMapGetInverse(value[t]) = <<key[t], TRUE>>
        /\ ~BiMapHasInverse(value[u])

\* C7 as stated: for all k1 # k2 and v, after Set(k1, v) has succeeded,
\* Set(k2, v) returns ErrDuplicatedValue: a Set(k2, v) that has returned while
\* v is paired with another key k1 has returned ErrDuplicatedValue.
DuplicatedValueAlways ==
    \A t \in Threads :
        (/\ pc[t] = "Done"
         /\ op[t] = "Set"
         /\ BiMapHasInverse(value[t])
         /\ BiMapGetInverse(value[t])[1] # key[t]) => ret[t] = <<ErrDuplicatedValue>>

\* C7 as amended: for all k1 # k2 and v, with k2 not in the forward table:
\* a Set(k2, v) called when v is paired with k1 returns ErrDuplicatedValue
\* and leaves both tables unchanged: k2 is not added to the forward table and
\* GetInverse(v) still returns (k1, true).
DuplicatedValueRejected ==
    [][\A t \in Threads :
          (/\ op[t] = "Set"
           /\ key[t] \notin DOMAIN mp
           /\ value[t] \in DOMAIN inverse
           /\ inverse[value[t]] # key[t]) =>
              /\ Steps(t, "SetHasLock") => pc'[t] = "SetHasRead" /\ TablesUnchanged
              /\ Steps(t, "SetHasRead") =>
                    pc'[t] = "SetGetInverseLock" /\ TablesUnchanged
              /\ Steps(t, "SetGetInverseLock") =>
                    pc'[t] = "SetGetInverseRead" /\ TablesUnchanged
              /\ Steps(t, "SetGetInverseRead") =>
                    /\ Returns(t)
                    /\ ret'[t] = <<ErrDuplicatedValue>>
                    /\ TablesUnchanged
                    /\ ~BiMapHas(key[t])'
                    /\ BiMapGetInverse(value[t])' = <<inverse[value[t]], TRUE>>
      ]_vars

\* C7 witness: Set(k1, v) has returned nil and then Set(k2, v), k2 # k1, has
\* returned ErrDuplicatedValue; v is still paired with k1 and k2 is absent.
DuplicatedValueWitness ==
    \E t, u \in Threads :
        /\ Returned(t, "Set", <<NoError>>)
        /\ Returned(u, "Set", <<ErrDuplicatedValue>>)
        /\ value[u] = value[t]
        /\ key[u] # key[t]
        /\ ~BiMapHas(key[u])
        /\ BiMapGetInverse(value[t]) = <<key[t], TRUE>>

\* C8: biMap.Delete(k) on a present key k paired with v removes the forward
\* entry k->v and the inverse entry v->k: it reads v, removes k from the
\* forward table (Size() drops by one) and v from the inverse table; when it
\* returns Has(k) and HasInverse(v) are false, and every other pair is still
\* present in both tables.
DeleteRemovesPair ==
    [][\A t \in Threads :
          op[t] = "Delete" =>
              /\ (key[t] \in DOMAIN mp /\ Steps(t, "DeleteHasRead")) =>
                    pc'[t] = "DeleteGetLock" /\ TablesUnchanged
              /\ (key[t] \in DOMAIN mp /\ Steps(t, "DeleteGetRead")) =>
                    /\ pc'[t] = "DeleteLock"
                    /\ value'[t] = mp[key[t]]
                    /\ inverse[value'[t]] = key[t]
                    /\ TablesUnchanged
              /\ Steps(t, "DeleteMp") =>
                    /\ pc'[t] = "DeleteInverse"
                    /\ key[t] \in DOMAIN mp /\ mp[key[t]] = value[t]
                    /\ DOMAIN mp' = DOMAIN mp \ {key[t]}
                    /\ \A k \in DOMAIN mp' : mp'[k] = mp[k]
                    /\ BiMapSize' = BiMapSize - 1
                    /\ inverse' = inverse
              /\ Steps(t, "DeleteInverse") =>
                    /\ Returns(t)
                    /\ mp' = mp
                    /\ DOMAIN inverse' = DOMAIN inverse \ {value[t]}
                    /\ \A v \in DOMAIN inverse' : inverse'[v] = inverse[v]
                    /\ ~BiMapHas(key[t])'
                    /\ ~BiMapHasInverse(value[t])'
                    /\ ExactInverses(mp', inverse')
      ]_vars

\* C8 witness: Set(k, v) has returned nil and then Delete(k) has read v and
\* returned; neither k nor v is present, another pair still is.
DeleteRemovesPairWitness ==
    \E t, u \in Threads :
        /\ Returned(t, "Set", <<NoError>>)
        /\ Returned(u, "Delete", NoRet)
        /\ key[u] = key[t]
        /\ value[u] = value[t]
        /\ value[u] # ZeroValue
        /\ ~BiMapHas(key[t])
        /\ ~BiMapHasInverse(value[t])
        /\ BiMapSize > 0
        /\ ExactInverses(mp, inverse)

\* C9: frozenMap.Set(k, v2) called when k is present with v1 returns
\* ErrKeyAlreadySet for every v2, v2 = v1 included, and leaves the map
\* unchanged: Get(k) still returns (v1, true) and Size() is unchanged.
FrozenKeyAlreadySet ==
    [][\A t \in Threads :
          (op[t] = "Set" /\ key[t] \in DOMAIN mp) =>
              /\ Steps(t, "FrozenSetHasLock") => pc'[t] = "FrozenSetHasRead" /\ mp' = mp
              /\ Steps(t, "FrozenSetHasRead") =>
                    /\ Returns(t)
                    /\ ret'[t] = <<ErrKeyAlreadySet>>
                    /\ mp' = mp
                    /\ FrozenMapGet(key[t])' = <<mp[key[t]], TRUE>>
                    /\ FrozenMapSize' = FrozenMapSize
      ]_vars

\* C9 witness: Set(k, v) has returned nil and then Set(k, v), with the same
\* value, has returned ErrKeyAlreadySet; k still has v.
FrozenKeyAlreadySetWitness ==
    \E t, u \in Threads :
        /\ t # u
        /\ Returned(t, "Set", <<NoError>>)
        /\ Returned(u, "Set", <<ErrKeyAlreadySet>>)
        /\ key[u] = key[t]
        /\ value[u] = value[t]
        /\ FrozenMapGet(key[t]) = <<value[t], TRUE>>
        /\ FrozenMapSize = 1

\* C10: frozenMap.Delete(k) re-enables writing.  Delete(k) on a present key
\* removes it and nothing else; Set(k, v2) on an absent key inserts, returns
\* nil, and Get(k) then returns (v2, true); and a step that removes a present
\* key or changes its value is the removal made by a Delete of that key.
FrozenDeleteReenablesSet ==
    [][/\ \A t \in Threads :
             /\ (op[t] = "Delete" /\ key[t] \in DOMAIN mp) =>
                   /\ Steps(t, "FrozenDeleteHasRead") =>
                         pc'[t] = "FrozenDeleteLock" /\ mp' = mp
                   /\ Steps(t, "FrozenDeleteWrite") =>
                         /\ Returns(t)
                         /\ ~FrozenMapHas(key[t])'
                         /\ DOMAIN mp' = DOMAIN mp \ {key[t]}
                         /\ \A k \in DOMAIN mp' : mp'[k] = mp[k]
             /\ (op[t] = "Set" /\ key[t] \notin DOMAIN mp) =>
                   /\ Steps(t, "FrozenSetHasRead") =>
                         pc'[t] = "FrozenSetLock" /\ mp' = mp
                   /\ Steps(t, "FrozenSetWrite") =>
                         /\ Returns(t)
                         /\ ret'[t] = <<NoError>>
                         /\ FrozenMapGet(key[t])' = <<value[t], TRUE>>
                         /\ \A k \in DOMAIN mp : k \in DOMAIN mp' /\ mp'[k] = mp[k]
             /\ Steps(t, "FrozenSetWrite") => key[t] \notin DOMAIN mp
             /\ Steps(t, "FrozenGetRead") =>
                   Returns(t) /\ mp' = mp /\ ret'[t] = FrozenMapGet(key[t])
       /\ \A k \in DOMAIN mp :
             (k \notin DOMAIN mp' \/ mp'[k] # mp[k]) =>
                 \E t \in Threads :
                     op[t] = "Delete" /\ key[t] = k /\ Steps(t, "FrozenDeleteWrite")
      ]_vars

\* C10 witness: Set(k, v1) has returned nil, Delete(k) has been made, and then
\* Set(k, v2), v2 # v1, has returned nil; Get(k) returns (v2, true).
FrozenDeleteReenablesSetWitness ==
    \E t, u \in Threads :
        /\ Returned(t, "Set", <<NoError>>)
        /\ Returned(u, "Set", <<NoError>>)
        /\ key[u] = key[t]
        /\ value[u] # value[t]
        /\ FrozenMapGet(key[u]) = <<value[u], TRUE>>
        /\ calls = 3

\* goroutine t invokes the generator
InvokesGenerator(t) == gen[t] = NoGen /\ gen'[t] # NoGen

\* C11: DefaultMap memoization, calls not overlapping.  Get(k) on an absent
\* key invokes the generator once, stores its output under k and returns it,
\* after which Has(k) is true; Get(k) on a present key returns the stored
\* value without invoking the generator; and the value stored under a present
\* key changes or goes away only by the write of a Set(k, _) or a Delete(k).
DefaultGetMemoizes ==
    [][/\ \A t \in Threads :
             op[t] = "Get" =>
                /\ (key[t] \notin DOMAIN mp /\ Steps(t, "DefaultGetRead")) =>
                      pc'[t] = "DefaultGetGen" /\ mp' = mp
                /\ Steps(t, "DefaultGetGen") =>
                      InvokesGenerator(t) /\ pc'[t] = "DefaultGetGenErr" /\ mp' = mp
                /\ (gen[t] # NoGen /\ gen[t][2] = NoError) =>
                      /\ Steps(t, "DefaultGetGenErr") =>
                            pc'[t] = "DefaultGetSetLock" /\ mp' = mp
                      /\ Steps(t, "DefaultGetSetLock") =>
                            pc'[t] = "DefaultGetSetWrite" /\ mp' = mp
                      /\ Steps(t, "DefaultGetSetWrite") =>
                            /\ Returns(t)
                            /\ ret'[t] = <<gen[t][1], NoError>>
                            /\ key[t] \notin DOMAIN mp
                            /\ DOMAIN mp' = DOMAIN mp \cup {key[t]}
                            /\ mp'[key[t]] = gen[t][1]
                            /\ \A k \in DOMAIN mp : mp'[k] = mp[k]
                            /\ DefaultMapHas(key[t])'
                /\ (key[t] \in DOMAIN mp /\ Steps(t, "DefaultGetRead")) =>
                      /\ Returns(t)
                      /\ ret'[t] = <<mp[key[t]], NoError>>
                      /\ gen'[t] = NoGen
                      /\ mp' = mp
                /\ InvokesGenerator(t) => gen'[t] \in GenFuncResults
       /\ \A t \in Threads :
             InvokesGenerator(t) =>
                op[t] = "Get" /\ key[t] \notin DOMAIN mp /\ pc[t] = "DefaultGetGen"
       /\ \A k \in DOMAIN mp :
             (k \notin DOMAIN mp' \/ mp'[k] # mp[k]) =>
                \E t \in Threads :
                   /\ key[t] = k
                   /\ \/ op[t] = "Set" /\ Steps(t, "DefaultSetWrite")
                      \/ op[t] = "Delete" /\ Steps(t, "DefaultDeleteWrite")
      ]_vars

\* C11 witness: from the empty map, Get(k) has invoked the generator and
\* returned its output v, then a second Get(k) has returned v without invoking
\* the generator; k holds v.
DefaultGetMemoizesWitness ==
    \E t, u \in Threads :
        /\ calls = 2
        /\ Returned(t, "Get", <<DefaultMapGet(key[t])[1], NoError>>)
        /\ gen[t] = <<ret[t][1], NoError>>
        /\ Returned(u, "Get", ret[t])
        /\ key[u] = key[t]
        /\ gen[u] = NoGen
        /\ DefaultMapHas(key[t])

\* C12: DefaultMap.Get(k) on an absent key whose generator fails returns an
\* error wrapping the generator's error and inserts nothing: no step of the
\* call changes the table, so Has(k) is false and Size() is what it was when
\* the call returns.
DefaultGetGeneratorFails ==
    [][\A t \in Threads :
          (/\ op[t] = "Get"
           /\ key[t] \notin DOMAIN mp
           /\ gen[t] # NoGen
           /\ gen[t][2] # NoError) =>
              /\ pc[t] \in {"DefaultGetGenErr", "Done"}
              /\ Steps(t, "DefaultGetGenErr") =>
                    /\ Returns(t)
                    /\ ret'[t] = <<ZeroValue, GeneratorError>>
                    /\ mp' = mp
                    /\ ~DefaultMapHas(key[t])'
                    /\ DefaultMapSize' = DefaultMapSize
      ]_vars

\* C12 witness: Get(k) has invoked the generator, which failed, and has
\* returned the wrapped error; k is absent while another key is present.
DefaultGetGeneratorFailsWitness ==
    \E t \in Threads :
        /\ Returned(t, "Get", <<ZeroValue, GeneratorError>>)
        /\ gen[t] # NoGen
        /\ gen[t][2] # NoError
        /\ ~DefaultMapHas(key[t])
        /\ DefaultMapSize = 1

\* a Get(k) of goroutine t has returned the output of its own generator call
Generated(t) ==
    /\ pc[t] = "Done"
    /\ op[t] = "Get"
    /\ gen[t] # NoGen
    /\ gen[t][2] = NoError
    /\ ret[t] = <<gen[t][1], NoError>>

\* C13: DefaultMap concurrent first access.  The generator is invoked with
\* the mutex free, and two overlapping Get(k) on the same absent key can both
\* invoke it.  Each insertion stores its own call's generator output under k,
\* over whatever is there, and nothing else changes the table; so once both
\* calls are complete k is present, and when they are the only two calls made
\* its value is the output stored last, one of the two generator outputs.
DefaultGetLastInsertionWins ==
    /\ [](\A t, u \in Threads :
            (t # u /\ Generated(t) /\ Generated(u) /\ key[t] = key[u]) =>
                /\ DefaultMapHas(key[t])
                /\ calls = 2 => DefaultMapGet(key[t])[1] \in {gen[t][1], gen[u][1]})
    /\ [][/\ \A t \in Threads :
                /\ InvokesGenerator(t) => mu # t /\ pc[t] = "DefaultGetGen"
                /\ Steps(t, "DefaultGetSetWrite") =>
                      /\ mu = t
                      /\ Returns(t)
                      /\ ret'[t] = <<gen[t][1], NoError>>
                      /\ DefaultMapGet(key[t])' = <<gen[t][1], TRUE>>
                      /\ \A k \in DOMAIN mp \ {key[t]} :
                            k \in DOMAIN mp' /\ mp'[k] = mp[k]
          /\ mp' # mp => \E t \in Threads : Steps(t, "DefaultGetSetWrite")
         ]_vars

\* C13 witness: two Get(k) on the same absent key have overlapped, both have
\* invoked the generator, with different outputs, and both have returned; k
\* holds the output of one of them and not the other's.
DefaultGetLastInsertionWinsWitness ==
    \E t, u \in Threads :
        /\ calls = 2
        /\ Generated(t) /\ Generated(u)
        /\ key[t] = key[u]
        /\ gen[t][1] # gen[u][1]
        /\ DefaultMapGet(key[t]) = <<gen[u][1], TRUE>>

\* C14: DefaultMap.Has(k) is a pure probe: from its call to its return no
\* generator is invoked and the table does not change; it returns whether k is
\* present, so Has(k) on an absent key returns false and k is still absent
\* when it has returned.
DefaultHasPureProbe ==
    [][\A t \in Threads :
          (op[t] = "Has" /\ pc[t] # "Done") =>
              /\ mp' = mp
              /\ \A u \in Threads : ~InvokesGenerator(u)
              /\ Steps(t, "DefaultHasLock") => pc'[t] = "DefaultHasRead"
              /\ Steps(t, "DefaultHasRead") =>
                    /\ Returns(t)
                    /\ ret'[t] = <<key[t] \in DOMAIN mp>>
                    /\ key[t] \notin DOMAIN mp =>
                          ret'[t] = <<FALSE>> /\ ~DefaultMapHas(key[t])'
      ]_vars

\* C14 witness: Has(k) on an absent key has returned false, no generator call
\* was made for it, and k is still absent while another key is present.
DefaultHasPureProbeWitness ==
    \E t \in Threads :
        /\ Returned(t, "Has", <<FALSE>>)
        /\ gen[t] = NoGen
        /\ ~DefaultMapHas(key[t])
        /\ DefaultMapSize = 1

\* the caller writes to the map its ToMap or ToMapInverse returned
WritesGotMap(t) ==
    pc[t] = "Done" /\ op[t] \in {"ToMap", "ToMapInverse"} /\ ret'[t] # ret[t]

\* the results of Get, GetInverse, Has, HasInverse and Size stay what they are
ReadsUnchanged ==
    /\ \A k \in KeySet :
          /\ BiMapGet(k)' = BiMapGet(k) /\ BiMapHas(k)' = BiMapHas(k)
          /\ FrozenMapGet(k)' = FrozenMapGet(k) /\ FrozenMapHas(k)' = FrozenMapHas(k)
          /\ DefaultMapGet(k)' = DefaultMapGet(k) /\ DefaultMapHas(k)' = DefaultMapHas(k)
    /\ \A v \in ValueSet :
          /\ BiMapGetInverse(v)' = BiMapGetInverse(v)
          /\ BiMapHasInverse(v)' = BiMapHasInverse(v)
    /\ BiMapSize' = BiMapSize
    /\ FrozenMapSize' = FrozenMapSize
    /\ DefaultMapSize' = DefaultMapSize

\* C15: ToMap() of a biMap, frozenMap or DefaultMap returns a map with the
\* entries the table has at call time, ToMapInverse() of a biMap one with the
\* entries of the inverse table, and the map returned is a new object:
\* inserting into it, changing it or deleting from it changes neither table
\* nor the result of any Get, GetInverse, Has, HasInverse or Size.
CopyIsIndependent ==
    [][\A t \in Threads :
          /\ (\/ Steps(t, "ToMapRead")
              \/ Steps(t, "FrozenToMapRead")
              \/ Steps(t, "DefaultToMapRead")) =>
                /\ Returns(t)
                /\ ret'[t][1].tbl = mp
                /\ ret'[t][1].obj \notin {"mp", "inverse"}
                /\ TablesUnchanged
          /\ Steps(t, "ToMapInverseRead") =>
                /\ Returns(t)
                /\ ret'[t][1].tbl = inverse
                /\ ret'[t][1].obj \notin {"mp", "inverse"}
                /\ TablesUnchanged
          /\ WritesGotMap(t) => TablesUnchanged /\ ReadsUnchanged
      ]_vars

\* C15 witness: after a Set, a ToMap or ToMapInverse has returned a map and
\* the caller has written to it: it differs from the table it was taken from,
\* which still holds the pair set.
CopyIsIndependentWitness ==
    \E t, u \in Threads :
        /\ calls = 3
        /\ Returned(t, "Set", IF kind = "defaultMap" THEN NoRet ELSE <<NoError>>)
        /\ pc[u] = "Done"
        /\ op[u] \in {"ToMap", "ToMapInverse"}
        /\ ret[u][1].tbl # (IF op[u] = "ToMap" THEN mp ELSE inverse)
        /\ MapLookup(mp, key[t]) = <<value[t], TRUE>>
        /\ Cardinality(DOMAIN mp) = 1

\* the statements that are a m.mu.Lock()
LockLabels ==
    {"SetHasLock", "SetGetInverseLock", "SetLock",
     "DeleteHasLock", "DeleteGetLock", "DeleteLock",
     "GetLock", "GetInverseLock", "HasLock", "HasInverseLock",
     "FrozenSetHasLock", "FrozenSetLock", "FrozenDeleteHasLock", "FrozenDeleteLock",
     "FrozenHasLock", "FrozenGetLock"}

\* C16: no operation blocks indefinitely.  Under fair scheduling every call
\* of Set, Get, GetInverse, Has, HasInverse or Delete on a biMap or a
\* frozenMap that is in progress eventually returns; no goroutine is at a
\* m.mu.Lock() while it holds the mutex; and the mutex is free whenever no
\* call is in progress.
NoOperationBlocks ==
    /\ [](/\ \A t \in Threads : pc[t] \in LockLabels => mu # t
          /\ Quiescent => mu = Unlocked)
    /\ \A t \in Threads : (pc[t] \notin {"Idle", "Done"}) ~> (pc[t] = "Done")

\* C16 witness: a goroutine waits at a m.mu.Lock() of Set or Delete while
\* another holds the mutex, after a call that waited has returned.
NoOperationBlocksWitness ==
    \E t, u \in Threads :
        /\ t # u
        /\ pc[t] \in LockLabels
        /\ op[t] \in {"Set", "Delete"}
        /\ mu = u
        /\ calls > NumThreads

\* C17: Delete(k) on an absent key is a no-op for a biMap, a frozenMap and a
\* DefaultMap: the call, which begins with its existence check, returns
\* right after it; from call to return both tables are unchanged, nothing is
\* returned, the process is not aborted, and no generator is invoked.
DeleteAbsentIsNoOp ==
    [][\A t \in Threads :
          (/\ op[t] = "Delete"
           /\ pc[t] \in {"DeleteHasLock", "DeleteHasRead",
                        "FrozenDeleteHasLock", "FrozenDeleteHasRead",
                        "DefaultDeleteHasLock", "DefaultDeleteHasRead"}
           /\ key[t] \notin DOMAIN mp) =>
              /\ TablesUnchanged
              /\ \A u \in Threads : ~InvokesGenerator(u) /\ pc'[u] # "Fatal"
              /\ Steps(t, "DeleteHasLock") => pc'[t] = "DeleteHasRead"
              /\ Steps(t, "FrozenDeleteHasLock") => pc'[t] = "FrozenDeleteHasRead"
              /\ Steps(t, "DefaultDeleteHasLock") => pc'[t] = "DefaultDeleteHasRead"
              /\ (\/ Steps(t, "DeleteHasRead")
                  \/ Steps(t, "FrozenDeleteHasRead")
                  \/ Steps(t, "DefaultDeleteHasRead")) =>
                    Returns(t) /\ ret'[t] = NoRet /\ mu' = Unlocked
      ]_vars

\* C17 witness: the only two calls made are a Set(k1, v) and a Delete(k2) of
\* another key, which has never been set; Delete has returned and the table
\* holds the pair of k1 and nothing else.
DeleteAbsentIsNoOpWitness ==
    \E t, u \in Threads :
        /\ calls = 2
        /\ Returned(t, "Delete", NoRet)
        /\ pc[u] = "Done" /\ op[u] = "Set"
        /\ key[u] # key[t]
        /\ mp = MapAssign(EmptyMap, key[u], value[u])
        /\ kind = "biMap" => inverse = MapAssign(EmptyMap, value[u], key[u])

\* C18: biMap.Set tie-break.  A Set(k, v) called when k is in the forward
\* table and v is in the inverse table, paired with k or with another key,
\* makes the key check first and returns ErrDuplicatedKey at it, never
\* ErrDuplicatedValue; the value check is not reached and nothing is written.
SetKeyCheckFirst ==
    [][\A t \in Threads :
          (/\ op[t] = "Set"
           /\ pc[t] # "Done"
           /\ key[t] \in DOMAIN mp
           /\ value[t] \in DOMAIN inverse) =>
              /\ pc[t] \in {"SetHasLock", "SetHasRead"}
              /\ TablesUnchanged
              /\ Steps(t, "SetHasLock") => pc'[t] = "SetHasRead"
              /\ Steps(t, "SetHasRead") =>
                    /\ Returns(t)
                    /\ ret'[t] = <<ErrDuplicatedKey>>
                    /\ ret'[t] # <<ErrDuplicatedValue>>
      ]_vars

\* C18 witness: a Set(k, v) has returned ErrDuplicatedKey while k is present
\* and v is present too, paired with another key.
SetKeyCheckFirstWitness ==
    \E u \in Threads :
        /\ Returned(u, "Set", <<ErrDuplicatedKey>>)
        /\ BiMapHas(key[u])
        /\ BiMapHasInverse(value[u])
        /\ BiMapGetInverse(value[u])[1] # key[u]

\* the Set of goroutine t has no conflict: no other goroutine sets the same
\* key or, on a biMap, the same value
NoConflict(t) ==
    \A u \in Threads \ {t} :
        op[u] = "Set" =>
            /\ key[u] # key[t]
            /\ kind = "biMap" => value[u] # value[t]

\* C19: concurrent Sets that do not conflict all take effect.  On a new biMap
\* or frozenMap, with goroutines that each call Set once and overlap in any
\* way, a Set(k, v) that has returned and whose key (and, for a biMap, value)
\* no other call sets has returned nil, and its entry is present with its own
\* value, in the forward table and for a biMap in the inverse table: no
\* update is lost.
NonConflictingSetsTakeEffect ==
    \A t \in Threads :
        (pc[t] = "Done" /\ op[t] = "Set" /\ NoConflict(t)) =>
            /\ ret[t] = <<NoError>>
            /\ MapLookup(mp, key[t]) = <<value[t], TRUE>>
            /\ kind = "biMap" => MapLookup(inverse, value[t]) = <<key[t], TRUE>>

\* C19 witness: two Sets of different keys and values have both returned nil
\* and both entries are present.
NonConflictingSetsTakeEffectWitness ==
    \E t, u \in Threads :
        /\ t # u
        /\ Returned(t, "Set", <<NoError>>) /\ NoConflict(t)
        /\ Returned(u, "Set", <<NoError>>) /\ NoConflict(u)
        /\ MapLookup(mp, key[t]) = <<value[t], TRUE>>
        /\ MapLookup(mp, key[u]) = <<value[u], TRUE>>
        /\ Cardinality(DOMAIN mp) = 2

\* C20: when the calls on a biMap never overlap, after any sequence of Set
\* and Delete calls from the empty biMap, whenever no call is in progress,
\* the forward and the inverse table are exact inverses of each other, have
\* the same number of entries, and Size() is that number.
SequentialBijection ==
    Quiescent =>
        /\ ExactInverses(mp, inverse)
        /\ Cardinality(DOMAIN mp) = Cardinality(DOMAIN inverse)
        /\ BiMapSize = Cardinality(DOMAIN inverse)

\* C20 witness: three calls have been made and have returned, the last a
\* Delete after a Set that succeeded; one pair is left, in both tables.
SequentialBijectionWitness ==
    \E t, u \in Threads :
        /\ calls = 3
        /\ Quiescent
        /\ Returned(t, "Delete", NoRet)
        /\ Returned(u, "Set", <<NoError>>)
        /\ BiMapSize = 1
        /\ Cardinality(DOMAIN inverse) = 1
        /\ BiMapGet(key[u]) = <<value[u], TRUE>>
        /\ BiMapGetInverse(value[u]) = <<key[u], TRUE>>

\* C21: frame of biMap.Delete under concurrency.  In every interleaving a
\* step of Delete(k) that writes a table leaves the forward entry and the
\* inverse entry of every other key k2 # k as they are: a forward entry it
\* removes or changes is that of k, and an inverse entry it removes or changes
\* is paired with k.
DeleteOnlyRemovesOwnPair ==
    [][\A t \in Threads :
          (op[t] = "Delete" /\ (Steps(t, "DeleteMp") \/ Steps(t, "DeleteInverse"))) =>
              /\ \A k2 \in DOMAIN mp \ {key[t]} :
                    k2 \in DOMAIN mp' /\ mp'[k2] = mp[k2]
              /\ \A v \in DOMAIN inverse :
                    inverse[v] # key[t] =>
                        v \in DOMAIN inverse' /\ inverse'[v] = inverse[v]
      ]_vars
====
